---- MODULE Spec2Model ----
(***************************************************************************)
(* BookSwipe: the gesture recognition engine (SwipeHandler) and the card   *)
(* stack controller (BookSwipeApp) of docs/scripts/swipe-handler.js.       *)
(*                                                                         *)
(* The browser is single threaded: every action below is one event         *)
(* handler, timer callback or promise continuation run to completion.      *)
(* Time is discrete: one Tick is MsPerTick milliseconds; a timer fires     *)
(* once its remaining delay is 0, timers with the same deadline fire in    *)
(* the order they were scheduled.                                          *)
(*                                                                         *)
(* Not modelled (styling only, read by no code): the CSS transition reset  *)
(* timer of resetCard, the pressed/feedback classes of animateActionButton,*)
(* the progress bar, z-index, the results-screen counters.                 *)
(***************************************************************************)
EXTENDS Integers, Sequences, FiniteSets, TLC

\* ---------------------------------------------------------------- bounds
\* Spec explores the gesture engine together with one voting session and a
\* restart; SessionSpec explores several sessions in a row, driven by the
\* keyboard and the buttons; WindowSpec explores the card window over a book
\* list longer than the window, one commit at a time, and the submission of
\* the votes; LostSpec explores pointer interactions whose end is never
\* delivered, with the bounds of Spec; LiveSpec explores what eventually
\* happens in keyboard sessions whose timers fire and whose promises settle.
MaxBooks == 1          \* Spec: longest book list loaded at startup
MaxEpoch == 1          \* Spec: how many times the card stack may be rebuilt/cleared
MaxTimers == 3         \* Spec: a commit is explored while its timers fit in this many
SessionMaxBooks == 2   \* SessionSpec: as MaxBooks
SessionMaxEpoch == 4   \* SessionSpec: as MaxEpoch
SessionMaxTimers == 3  \* SessionSpec: as MaxTimers
WindowMaxBooks == 6    \* WindowSpec: as MaxBooks
WindowMaxEpoch == 2    \* WindowSpec: as MaxEpoch
WindowMaxTimers == 2   \* WindowSpec: as MaxTimers
LiveMaxBooks == 3      \* LiveSpec: as MaxBooks
LiveMaxEpoch == 2      \* LiveSpec: as MaxEpoch
LiveMaxTimers == 2     \* LiveSpec: as MaxTimers
HeldMaxBooks == 2      \* HeldSpec: as MaxBooks
HeldMaxEpoch == 2      \* HeldSpec: as MaxEpoch
HeldMaxTimers == 2     \* HeldSpec: as MaxTimers
MaxPending == 2        \* handleAllBooksReviewed continuations awaiting getCurrentUser
MaxElapsed == 200      \* gesture duration is tracked up to this many ms

\* ------------------------------------------------------ program constants
tapThreshold == 10
intentThreshold == 15
swipeThreshold == 80
velocityThresholdX10 == 5      \* velocityThreshold = 0.5 px/ms
rotationFactorX10 == 1         \* rotationFactor = 0.1
indicatorDistance == 30
opacityScale == 300            \* opacity is kept as opacity * 300
opacityFloor == 210            \* 0.7 * 300
initialCards == 5
lowWaterMark == 3
removeDelay == 300
loadMoreDelay == 300
reviewedDelay == 500
resultsDelay == 1000
welcomeDelay == 1500
MsPerTick == 100

NoPointer == 0                 \* activePointerId = null
NoCard == <<>>                 \* currentCard = null / no element

AllIds == <<"A", "B", "C", "D", "E", "F", "G", "H", "I", "J">>
PointerIds == {1, 2}
\* Spec: where each pointer goes down (clientY is 0), and the positions
\* <<clientX, clientY>> of the pointermove events
Downs == {[pid |-> 1, x |-> 0], [pid |-> 2, x |-> 20]}
Points == {<<-100, 0>>, <<0, 0>>, <<8, 0>>, <<60, 0>>, <<100, 0>>,
           <<0, 40>>, <<60, 40>>}
\* HeldSpec: one finger that goes down on the top card and drags it to
\* the right
HeldDowns == {[pid |-> 1, x |-> 0]}
HeldPoints == {<<100, 0>>}
\* the positions <<clientX, clientY>> of the pointerup events
UpPoints == {<<0, 0>>, <<100, 0>>}
NoPoint == <<>>

Abs(x) == IF x < 0 THEN -x ELSE x
Max(a, b) == IF a > b THEN a ELSE b
Min(a, b) == IF a < b THEN a ELSE b

VARIABLES
  \* BookSwipeApp
  books, currentBookIndex, userVotes, highestLoadedBookIndex,
  installed, screen, errorShown,
  \* the DOM: #card-stack children, and the element generation
  cardStack, epoch,
  \* SwipeHandler
  activePointerId, currentCard, pointerStartX, pointerStartY,
  pointerCurrentX, pointerCurrentY, elapsed, gestureIntent, isDragging,
  \* event loop
  timers, pendingAuth,
  \* the submit button and the submitVotes() calls in flight
  submitDisabled, submitAuth, submitApi,
  \* observation of the last handler run; lastPid is the pointerId of the
  \* event it was given (NoPointer when it was not a pointer event)
  lastOp, lastPid, onSwipeCall, signals,
  \* the value of gestureIntent that handler found when it started
  intentAtEntry,
  \* <<clientX, clientY>> of the pointerup event it was given (NoPoint when
  \* it was not a pointerup)
  upPoint,
  \* whether the target of the pointerdown of heldPid was inside a
  \* .card-content whose content overflows (the code keeps no record of it)
  downInScrollable,
  \* the pointer whose pointerdown was accepted last and whose pointerup or
  \* pointercancel has not been delivered yet (NoPointer: none)
  heldPid

appVars == <<books, currentBookIndex, userVotes, highestLoadedBookIndex,
             installed, screen, errorShown>>
domVars == <<cardStack, epoch>>
gestureVars == <<activePointerId, currentCard, pointerStartX, pointerStartY,
                 pointerCurrentX, pointerCurrentY, elapsed, gestureIntent,
                 isDragging>>
loopVars == <<timers, pendingAuth>>
submitVars == <<submitDisabled, submitAuth, submitApi>>
obsVars == <<lastOp, lastPid, intentAtEntry, upPoint, downInScrollable,
             onSwipeCall, signals, heldPid>>
vars == <<appVars, domVars, gestureVars, loopVars, submitVars, obsVars>>

NoCall == [fired |-> FALSE, bookId |-> "", vote |-> "", direction |-> ""]

\* ------------------------------------------------------------ DOM helpers
\* A card element: el is its identity <<epoch, book index>>.
NewCard(ep, i) ==
  [el |-> <<ep, i>>, bookId |-> books[i + 1], flipped |-> FALSE,
   dragging |-> FALSE, exit |-> {}, tk |-> "unset", tx |-> 0, ty |-> 0,
   rot |-> 0, opacity |-> opacityScale, like |-> FALSE, pass |-> FALSE]

BookIdOfEl(el) == books[el[2] + 1]

InStack(stack, el) == \E i \in DOMAIN stack : stack[i].el = el

\* cardStack.querySelectorAll(".book-card")[0]
getTopCard(stack) == IF Len(stack) > 0 THEN stack[1].el ELSE NoCard

isTopCard(stack, el) == Len(stack) > 0 /\ stack[1].el = el

\* the stacking styles of updateCardStack, by position
StackStyle(c, index) ==
  [c EXCEPT !.tk = "stack", !.tx = 0, !.ty = Min(index, 3) * 10, !.rot = 0,
            !.opacity = opacityScale - Min(index, 3) * 60]

RestyleStack(stack) == [i \in DOMAIN stack |-> StackStyle(stack[i], i - 1)]

RemoveEl(stack, el) ==
  SelectSeq(stack, LAMBDA c : c.el # el)

\* --------------------------------------------------------------- timers
\* A pending setTimeout callback: rem is the delay left, el the card element
\* its closure holds, ep the element generation current when it was scheduled
\* (the code keeps no such tag; it is recorded to tell which session a
\* callback belongs to).
Timer(kind, delay, el) ==
  [kind |-> kind, rem |-> delay, el |-> el, ep |-> epoch]

\* setTimeout: the new timer goes after every timer due no later than it
RECURSIVE Insert(_, _)
Insert(ts, t) ==
  IF ts = <<>> THEN <<t>>
  ELSE IF Head(ts).rem <= t.rem THEN <<Head(ts)>> \o Insert(Tail(ts), t)
  ELSE <<t>> \o ts

Due(kind) == timers # <<>> /\ Head(timers).rem = 0 /\ Head(timers).kind = kind

\* ---------------------------------------------------- card DOM mutations
\* Each operator changes the one card element el, if it is still attached.

\* card.classList.add("animate-swipe-right" | "animate-swipe-left")
AddExitClass(stack, el, direction) ==
  [i \in DOMAIN stack |->
     IF stack[i].el = el
     THEN [stack[i] EXCEPT !.exit = @ \cup {direction}] ELSE stack[i]]

\* hideSwipeIndicators
hideSwipeIndicators(stack, el) ==
  [i \in DOMAIN stack |->
     IF stack[i].el = el
     THEN [stack[i] EXCEPT !.like = FALSE, !.pass = FALSE] ELSE stack[i]]

\* variant of updateSwipeIndicators that shows one indicator without hiding
\* the other
updateSwipeIndicators_KeepsOther(stack, el, deltaX, distance) ==
  [i \in DOMAIN stack |->
     IF stack[i].el # el THEN stack[i]
     ELSE IF distance > indicatorDistance
     THEN IF deltaX > 0 THEN [stack[i] EXCEPT !.like = TRUE]
          ELSE [stack[i] EXCEPT !.pass = TRUE]
     ELSE [stack[i] EXCEPT !.like = FALSE, !.pass = FALSE]]

\* updateSwipeIndicators(deltaX, distance)
updateSwipeIndicators(stack, el, deltaX, distance) ==
  [i \in DOMAIN stack |->
     IF stack[i].el # el THEN stack[i]
     ELSE IF distance > indicatorDistance
     THEN [stack[i] EXCEPT !.like = (deltaX > 0), !.pass = ~(deltaX > 0)]
     ELSE [stack[i] EXCEPT !.like = FALSE, !.pass = FALSE]]

\* variant of resetCard that leaves the card's opacity as the drag set it
resetCard_KeepsOpacity(stack, el) ==
  [i \in DOMAIN stack |->
     IF stack[i].el = el
     THEN [stack[i] EXCEPT !.dragging = FALSE, !.tk = "center", !.tx = 0,
                           !.ty = 0, !.rot = 0]
     ELSE stack[i]]

\* resetCard: back to the centre, full opacity, no dragging class
resetCard(stack, el) ==
  [i \in DOMAIN stack |->
     IF stack[i].el = el
     THEN [stack[i] EXCEPT !.dragging = FALSE, !.tk = "center", !.tx = 0,
                           !.ty = 0, !.rot = 0, !.opacity = opacityScale]
     ELSE stack[i]]

\* currentCard?.classList.remove("dragging") of resetState
RemoveDragging(stack, el) ==
  [i \in DOMAIN stack |->
     IF stack[i].el = el THEN [stack[i] EXCEPT !.dragging = FALSE]
     ELSE stack[i]]

\* this.currentCard.classList.add("dragging")
AddDragging(stack, el) ==
  [i \in DOMAIN stack |->
     IF stack[i].el = el THEN [stack[i] EXCEPT !.dragging = TRUE]
     ELSE stack[i]]

\* the drag feedback of handlePointerMove
DragStyle(stack, el, deltaX, deltaY) ==
  [i \in DOMAIN stack |->
     IF stack[i].el = el
     THEN [stack[i] EXCEPT !.tk = "drag", !.tx = deltaX, !.ty = deltaY,
                           !.rot = deltaX * rotationFactorX10,
                           !.opacity = Max(opacityFloor, opacityScale - Abs(deltaX))]
     ELSE stack[i]]

\* variant of ToggleFlipped that leaves the class as it is
ToggleFlipped_Noop(stack, el) ==
  [i \in DOMAIN stack |-> stack[i]]

\* handleTap: classList.toggle("flipped")
ToggleFlipped(stack, el) ==
  [i \in DOMAIN stack |->
     IF stack[i].el = el THEN [stack[i] EXCEPT !.flipped = ~@] ELSE stack[i]]

\* ------------------------------------------------------- vote bookkeeping
\* variant of VoteOf with the two votes exchanged
VoteOf_Swapped(direction) ==
  IF direction = "right" THEN "not_interested" ELSE "interested"

\* const vote = direction === "right" ? "interested" : "not_interested"
VoteOf(direction) == IF direction = "right" THEN "interested" ELSE "not_interested"

\* this.userVotes[bookId] = vote
RecordVote(votes, bookId, vote) == (bookId :> vote) @@ votes

VoteCount(votes) == Cardinality(DOMAIN votes)

\* The timers a commit schedules, in the order the code calls setTimeout:
\* handleSwipe's loadMoreCards, handleSwipe's handleAllBooksReviewed (only
\* when every book has a vote), then completeSwipe's card removal.
CommitTimers(ts, el, votes) ==
  LET t1 == Insert(ts, Timer("loadMore", loadMoreDelay, NoCard))
      t2 == IF VoteCount(votes) >= Len(books)
            THEN Insert(t1, Timer("allReviewed", reviewedDelay, NoCard))
            ELSE t1
  IN Insert(t2, Timer("remove", removeDelay, el))

\* exploration bound: room for the timers of one more commit
CanCommit(maxTimers) == Len(timers) + 2 <= maxTimers

\* completeSwipe(direction) for card el, with the onSwipe callback
\* (BookSwipeApp.handleSwipe) inlined.  stack is the DOM after the caller's
\* other changes.
completeSwipe(el, direction, stack) ==
  LET bookId == BookIdOfEl(el)
      vote == VoteOf(direction)
      votes == RecordVote(userVotes, bookId, vote)
  IN /\ cardStack' = AddExitClass(stack, el, direction)
     /\ userVotes' = votes
     /\ currentBookIndex' = currentBookIndex + 1
     /\ timers' = CommitTimers(timers, el, votes)
     /\ onSwipeCall' = [fired |-> TRUE, bookId |-> bookId, vote |-> vote,
                        direction |-> direction]

\* variant of ClearGesture that leaves currentCard set
ClearGesture_KeepsCard ==
  /\ activePointerId' = NoPointer
  /\ currentCard' = currentCard
  /\ gestureIntent' = "none"
  /\ isDragging' = FALSE
  /\ pointerStartX' = 0
  /\ pointerStartY' = 0
  /\ pointerCurrentX' = 0
  /\ pointerCurrentY' = 0
  /\ elapsed' = 0

\* releasePointer + resetState
ClearGesture ==
  /\ activePointerId' = NoPointer
  /\ currentCard' = NoCard
  /\ gestureIntent' = "none"
  /\ isDragging' = FALSE
  /\ pointerStartX' = 0
  /\ pointerStartY' = 0
  /\ pointerCurrentX' = 0
  /\ pointerCurrentY' = 0
  /\ elapsed' = 0

KeepGesture == UNCHANGED gestureVars

\* ---------------------------------------------------------------- Init
\* The state right after the BookSwipeApp constructor: init() has shown the
\* loading screen and awaits the API.
Init ==
  /\ books = <<>>
  /\ currentBookIndex = 0
  /\ userVotes = <<>>
  /\ highestLoadedBookIndex = -1
  /\ installed = FALSE
  /\ screen = "loading-screen"
  /\ errorShown = FALSE
  /\ cardStack = <<>>
  /\ epoch = 0
  /\ activePointerId = NoPointer
  /\ currentCard = NoCard
  /\ pointerStartX = 0
  /\ pointerStartY = 0
  /\ pointerCurrentX = 0
  /\ pointerCurrentY = 0
  /\ elapsed = 0
  /\ gestureIntent = "none"
  /\ isDragging = FALSE
  /\ timers = <<>>
  /\ pendingAuth = 0
  /\ submitDisabled = FALSE
  /\ submitAuth = 0
  /\ submitApi = 0
  /\ lastOp = "constructor"
  /\ lastPid = NoPointer
  /\ intentAtEntry = "none"
  /\ upPoint = NoPoint
  /\ downInScrollable = FALSE
  /\ heldPid = NoPointer
  /\ onSwipeCall = NoCall
  /\ signals = 0

\* ------------------------------------------------------- BookSwipeApp.init
\* variant of InitDone without loadBooks' test for an empty list
InitDone_AcceptsEmpty(maxBooks) ==
  /\ lastOp = "constructor"
  /\ \E n \in 0..maxBooks :
       /\ books' = SubSeq(AllIds, 1, n)
       /\ installed' = TRUE
       /\ errorShown' = FALSE
       /\ timers' = Insert(timers, Timer("welcome", welcomeDelay, NoCard))
  /\ lastOp' = "init"
  /\ lastPid' = NoPointer
  /\ intentAtEntry' = gestureIntent
  /\ upPoint' = NoPoint
  /\ UNCHANGED <<heldPid, downInScrollable>>
  /\ onSwipeCall' = NoCall
  /\ UNCHANGED <<currentBookIndex, userVotes, highestLoadedBookIndex, screen,
                 domVars, gestureVars, pendingAuth, signals, submitVars>>

\* The rest of init() once the API calls have settled: getBooks returned n
\* books (apiOk) or an API call was rejected.
InitDone(maxBooks) ==
  /\ lastOp = "constructor"
  /\ \E n \in 0..maxBooks, apiOk \in BOOLEAN :
       IF apiOk /\ n > 0
       THEN /\ books' = SubSeq(AllIds, 1, n)
            /\ installed' = TRUE
            /\ errorShown' = FALSE
            /\ timers' = Insert(timers, Timer("welcome", welcomeDelay, NoCard))
       ELSE /\ books' = (IF apiOk THEN SubSeq(AllIds, 1, n) ELSE <<>>)
            /\ installed' = FALSE
            /\ errorShown' = TRUE
            /\ timers' = timers
  /\ lastOp' = "init"
  /\ lastPid' = NoPointer
  /\ intentAtEntry' = gestureIntent
  /\ upPoint' = NoPoint
  /\ UNCHANGED <<heldPid, downInScrollable>>
  /\ onSwipeCall' = NoCall
  /\ UNCHANGED <<currentBookIndex, userVotes, highestLoadedBookIndex, screen,
                 domVars, gestureVars, pendingAuth, signals, submitVars>>

\* setTimeout(() => showScreen("welcome-screen"), 1500)
FireWelcome ==
  /\ Due("welcome")
  /\ timers' = Tail(timers)
  /\ screen' = "welcome-screen"
  /\ lastOp' = "timer:welcome"
  /\ lastPid' = NoPointer
  /\ intentAtEntry' = gestureIntent
  /\ upPoint' = NoPoint
  /\ UNCHANGED <<heldPid, downInScrollable>>
  /\ onSwipeCall' = NoCall
  /\ UNCHANGED <<books, currentBookIndex, userVotes, highestLoadedBookIndex,
                 installed, errorShown, domVars, gestureVars, pendingAuth,
                 signals, submitVars>>

\* ---------------------------------------------------------- startVoting
\* loadCards: the cards created for books currentBookIndex .. +4
LoadedCards(ep, from) ==
  LET cardsToLoad == Min(initialCards, Len(books) - from)
  IN [i \in 1..cardsToLoad |-> NewCard(ep, from + i - 1)]

StartClick(maxEpoch) ==
  /\ installed
  /\ screen = "welcome-screen"
  /\ epoch < maxEpoch
  /\ LET cards == LoadedCards(epoch + 1, 0)
     IN /\ cardStack' = RestyleStack(cards)
        /\ highestLoadedBookIndex' =
             IF Len(cards) > 0
             THEN Max(highestLoadedBookIndex, Len(cards) - 1)
             ELSE highestLoadedBookIndex
  /\ epoch' = epoch + 1
  /\ currentBookIndex' = 0
  /\ userVotes' = <<>>
  /\ screen' = "voting-screen"
  /\ signals' = 0
  /\ lastOp' = "startVoting"
  /\ lastPid' = NoPointer
  /\ intentAtEntry' = gestureIntent
  /\ upPoint' = NoPoint
  /\ UNCHANGED <<heldPid, downInScrollable>>
  /\ onSwipeCall' = NoCall
  /\ UNCHANGED <<books, installed, errorShown, gestureVars, loopVars,
                 submitVars>>

\* ------------------------------------------------------------- restart
RestartClick(maxEpoch) ==
  /\ installed
  /\ screen = "results-screen"
  /\ epoch < maxEpoch
  /\ currentBookIndex' = 0
  /\ userVotes' = <<>>
  /\ highestLoadedBookIndex' = -1
  /\ cardStack' = <<>>
  /\ epoch' = epoch + 1
  /\ ClearGesture                      \* swipeHandler.reset()
  /\ screen' = "welcome-screen"
  /\ signals' = 0
  /\ lastOp' = "restart"
  /\ lastPid' = NoPointer
  /\ intentAtEntry' = gestureIntent
  /\ upPoint' = NoPoint
  /\ UNCHANGED <<heldPid, downInScrollable>>
  /\ onSwipeCall' = NoCall
  /\ UNCHANGED <<books, installed, errorShown, loopVars, submitVars>>

\* ------------------------------------------------- handleAllBooksReviewed
\* The synchronous part up to `await bookSwipeAPI.getCurrentUser()`.
CanSignal == pendingAuth < MaxPending

\* variant of ResolveAuth that does not schedule the results screen
ResolveAuth_NoResults ==
  /\ pendingAuth > 0
  /\ pendingAuth' = pendingAuth - 1
  /\ timers' = timers
  /\ lastOp' = "promise:getCurrentUser"
  /\ lastPid' = NoPointer
  /\ intentAtEntry' = gestureIntent
  /\ upPoint' = NoPoint
  /\ UNCHANGED <<heldPid, downInScrollable>>
  /\ onSwipeCall' = NoCall
  /\ UNCHANGED <<appVars, domVars, gestureVars, signals, submitVars>>

\* the continuation after the await: setTimeout(showScreen("results-screen"))
ResolveAuth ==
  /\ pendingAuth > 0
  /\ pendingAuth' = pendingAuth - 1
  /\ timers' = Insert(timers, Timer("showResults", resultsDelay, NoCard))
  /\ lastOp' = "promise:getCurrentUser"
  /\ lastPid' = NoPointer
  /\ intentAtEntry' = gestureIntent
  /\ upPoint' = NoPoint
  /\ UNCHANGED <<heldPid, downInScrollable>>
  /\ onSwipeCall' = NoCall
  /\ UNCHANGED <<appVars, domVars, gestureVars, signals, submitVars>>

FireShowResults ==
  /\ Due("showResults")
  /\ timers' = Tail(timers)
  /\ screen' = "results-screen"
  /\ lastOp' = "timer:showResults"
  /\ lastPid' = NoPointer
  /\ intentAtEntry' = gestureIntent
  /\ upPoint' = NoPoint
  /\ UNCHANGED <<heldPid, downInScrollable>>
  /\ onSwipeCall' = NoCall
  /\ UNCHANGED <<books, currentBookIndex, userVotes, highestLoadedBookIndex,
                 installed, errorShown, domVars, gestureVars, pendingAuth,
                 signals, submitVars>>

\* setTimeout(async () => { await this.handleAllBooksReviewed(); }, 500)
FireAllReviewed ==
  /\ Due("allReviewed")
  /\ CanSignal
  /\ timers' = Tail(timers)
  /\ pendingAuth' = pendingAuth + 1
  /\ signals' = signals + 1
  /\ lastOp' = "timer:allReviewed"
  /\ lastPid' = NoPointer
  /\ intentAtEntry' = gestureIntent
  /\ upPoint' = NoPoint
  /\ UNCHANGED <<heldPid, downInScrollable>>
  /\ onSwipeCall' = NoCall
  /\ UNCHANGED <<appVars, domVars, gestureVars, submitVars>>

\* ------------------------------------------------------------ loadMoreCards
\* variant of loadMoreCardsFrom without the currentCards < 3 test
loadMoreCardsFrom_NoLowWaterTest(stack, highest, ep) ==
  LET nextBookIndex == highest + 1
      remainingBooks == Len(books) - nextBookIndex
  IN IF remainingBooks > 0
     THEN [stack |-> RestyleStack(Append(stack, NewCard(ep, nextBookIndex))),
           highest |-> Max(highest, nextBookIndex)]
     ELSE [stack |-> stack, highest |-> highest]

\* variant of loadMoreCardsFrom that starts at the highest loaded book
\* instead of the one after it
loadMoreCardsFrom_Reloads(stack, highest, ep) ==
  LET currentCards == Len(stack)
      nextBookIndex == Max(highest, 0)
      remainingBooks == Len(books) - nextBookIndex
      cardsToAdd == Min(lowWaterMark - currentCards, remainingBooks)
  IN IF remainingBooks > 0 /\ currentCards < lowWaterMark
     THEN [stack |-> RestyleStack(stack \o
                       [i \in 1..cardsToAdd |-> NewCard(ep, nextBookIndex + i - 1)]),
           highest |-> Max(highest, nextBookIndex + cardsToAdd - 1)]
     ELSE [stack |-> stack, highest |-> highest]

\* loadMoreCards run on the #card-stack children `stack` with
\* this.highestLoadedBookIndex = highest; the result is the pair it leaves
loadMoreCardsFrom(stack, highest, ep) ==
  LET currentCards == Len(stack)
      nextBookIndex == highest + 1
      remainingBooks == Len(books) - nextBookIndex
      cardsToAdd == Min(lowWaterMark - currentCards, remainingBooks)
  IN IF remainingBooks > 0 /\ currentCards < lowWaterMark
     THEN [stack |-> RestyleStack(stack \o
                       [i \in 1..cardsToAdd |-> NewCard(ep, nextBookIndex + i - 1)]),
           highest |-> Max(highest, nextBookIndex + cardsToAdd - 1)]
     ELSE [stack |-> stack, highest |-> highest]

loadMoreCards(stack, ep) ==
  loadMoreCardsFrom(stack, highestLoadedBookIndex, ep)

FireLoadMore ==
  /\ Due("loadMore")
  /\ timers' = Tail(timers)
  /\ LET r == loadMoreCards(cardStack, epoch)
     IN /\ cardStack' = r.stack
        /\ highestLoadedBookIndex' = r.highest
  /\ lastOp' = "timer:loadMore"
  /\ lastPid' = NoPointer
  /\ intentAtEntry' = gestureIntent
  /\ upPoint' = NoPoint
  /\ UNCHANGED <<heldPid, downInScrollable>>
  /\ onSwipeCall' = NoCall
  /\ UNCHANGED <<books, currentBookIndex, userVotes, installed, screen,
                 errorShown, epoch, gestureVars, pendingAuth, signals, submitVars>>

\* completeSwipe's timer: remove the card, then updateCardStack, whose
\* onEmpty callback is handleAllBooksReviewed
FireRemove ==
  /\ Due("remove")
  /\ LET stack == RemoveEl(cardStack, Head(timers).el)
     IN /\ cardStack' = RestyleStack(stack)
        /\ IF Len(stack) = 0
           THEN /\ CanSignal
                /\ pendingAuth' = pendingAuth + 1
                /\ signals' = signals + 1
                /\ lastOp' = "timer:remove+onEmpty"
           ELSE /\ pendingAuth' = pendingAuth
                /\ signals' = signals
                /\ lastOp' = "timer:remove"
  /\ timers' = Tail(timers)
  /\ lastPid' = NoPointer
  /\ intentAtEntry' = gestureIntent
  /\ upPoint' = NoPoint
  /\ UNCHANGED <<heldPid, downInScrollable>>
  /\ onSwipeCall' = NoCall
  /\ UNCHANGED <<appVars, epoch, gestureVars, submitVars>>

\* ------------------------------------------------------------ submitVotes
\* exploration bound: submitVotes() calls in flight
CanSubmit == submitAuth + submitApi < MaxPending

\* click on submit-votes-btn: submitVotes() up to its
\* `await bookSwipeAPI.getCurrentUser()`; a disabled button gets no click
SubmitClick ==
  /\ installed
  /\ screen = "results-screen"
  /\ ~submitDisabled
  /\ CanSubmit
  /\ submitAuth' = submitAuth + 1
  /\ lastOp' = "submit:click"
  /\ lastPid' = NoPointer
  /\ intentAtEntry' = gestureIntent
  /\ upPoint' = NoPoint
  /\ UNCHANGED <<heldPid, downInScrollable>>
  /\ onSwipeCall' = NoCall
  /\ UNCHANGED <<appVars, domVars, gestureVars, loopVars, submitDisabled,
                 submitApi, signals>>

\* submitVotes() after getCurrentUser settled: hasName tells whether the
\* user's email or the name field gives a non-empty identifier; without one
\* the call ends with an alert, otherwise the button is disabled and the
\* call awaits bookSwipeAPI.submitVotes
SubmitValidate ==
  /\ submitAuth > 0
  /\ submitAuth' = submitAuth - 1
  /\ \E hasName \in BOOLEAN :
       IF hasName
       THEN /\ submitDisabled' = TRUE
            /\ submitApi' = submitApi + 1
            /\ lastOp' = "submit:sending"
       ELSE /\ UNCHANGED <<submitDisabled, submitApi>>
            /\ lastOp' = "submit:noName"
  /\ lastPid' = NoPointer
  /\ intentAtEntry' = gestureIntent
  /\ upPoint' = NoPoint
  /\ UNCHANGED <<heldPid, downInScrollable>>
  /\ onSwipeCall' = NoCall
  /\ UNCHANGED <<appVars, domVars, gestureVars, loopVars, signals>>

\* What can happen to one call of BookSwipeAPI.submitVotes: mock mode, a
\* created record, a rejected fetch, a response that is not OK, a body that
\* is not JSON.
ApiOutcomes == {"mock", "ok", "network", "status", "json"}

\* BookSwipeAPI.submitVotes: how the call settles.  Everything after the
\* mock-mode return is inside one try block whose catch returns
\* {success: false, error: error.message}.
apiSubmitVotes(outcome) ==
  CASE outcome = "mock" -> [threw |-> FALSE, success |-> TRUE, error |-> ""]
    [] outcome = "ok" -> [threw |-> FALSE, success |-> TRUE, error |-> ""]
    [] outcome = "network" ->
         [threw |-> FALSE, success |-> FALSE, error |-> "Failed to fetch"]
    [] outcome = "status" ->
         [threw |-> FALSE, success |-> FALSE, error |-> "Failed to submit votes"]
    [] outcome = "json" ->
         [threw |-> FALSE, success |-> FALSE, error |-> "Unexpected token"]

\* submitVotes() after bookSwipeAPI.submitVotes settled: the success screen
\* for {success: true}, otherwise an alert and the button enabled
SubmitDone ==
  /\ submitApi > 0
  /\ submitApi' = submitApi - 1
  /\ \E outcome \in ApiOutcomes :
       IF ~apiSubmitVotes(outcome).threw /\ apiSubmitVotes(outcome).success
       THEN /\ screen' = "success-screen"
            /\ UNCHANGED submitDisabled
            /\ lastOp' = "submit:success"
       ELSE /\ screen' = screen
            /\ submitDisabled' = FALSE
            /\ lastOp' = "submit:failed"
  /\ lastPid' = NoPointer
  /\ intentAtEntry' = gestureIntent
  /\ upPoint' = NoPoint
  /\ UNCHANGED <<heldPid, downInScrollable>>
  /\ onSwipeCall' = NoCall
  /\ UNCHANGED <<books, currentBookIndex, userVotes, highestLoadedBookIndex,
                 installed, errorShown, domVars, gestureVars, loopVars,
                 submitAuth, signals>>

\* click on done-btn: showScreen("welcome-screen")
DoneClick ==
  /\ installed
  /\ screen = "success-screen"
  /\ screen' = "welcome-screen"
  /\ lastOp' = "done"
  /\ lastPid' = NoPointer
  /\ intentAtEntry' = gestureIntent
  /\ upPoint' = NoPoint
  /\ UNCHANGED <<heldPid, downInScrollable>>
  /\ onSwipeCall' = NoCall
  /\ UNCHANGED <<books, currentBookIndex, userVotes, highestLoadedBookIndex,
                 installed, errorShown, domVars, gestureVars, loopVars,
                 submitVars, signals>>

\* ------------------------------------------------------ SwipeHandler events
\* variant of AcceptsDown without the activePointerId test
AcceptsDown_AnyPointer(pos, button, inFlip) ==
  /\ pos # 0 /\ isTopCard(cardStack, cardStack[pos].el)
  /\ button = 0
  /\ inFlip

\* handlePointerDown's acceptance test; pos is the position in the card
\* stack of e.target.closest(".book-card") (0: not on a card), inFlip
\* whether e.target is inside the card's .card-flip-container.
AcceptsDown(pos, button, inFlip) ==
  /\ pos # 0 /\ isTopCard(cardStack, cardStack[pos].el)
  /\ button = 0
  /\ activePointerId = NoPointer
  /\ inFlip

\* setPointerCapture is best effort (its failure is caught and ignored); the
\* handler keeps no record of whether it succeeded.
PointerDown(downs) ==
  /\ installed
  /\ screen = "voting-screen"
  /\ \E button \in {0, 2}, pos \in 0..Min(2, Len(cardStack)), inFlip \in BOOLEAN :
       IF AcceptsDown(pos, button, inFlip)
       THEN \E d \in downs :
              /\ lastPid' = d.pid
              /\ intentAtEntry' = gestureIntent
              /\ upPoint' = NoPoint
              /\ heldPid' = d.pid
              /\ downInScrollable' \in BOOLEAN
              /\ activePointerId' = d.pid
              /\ currentCard' = cardStack[pos].el
              /\ pointerStartX' = d.x
              /\ pointerStartY' = 0
              /\ pointerCurrentX' = d.x
              /\ pointerCurrentY' = 0
              /\ elapsed' = 0
              /\ gestureIntent' = "none"
              /\ isDragging' = FALSE
              /\ lastOp' = "pointerdown:accepted"
       ELSE /\ KeepGesture
            /\ \E d \in downs : lastPid' = d.pid
            /\ intentAtEntry' = gestureIntent
            /\ upPoint' = NoPoint
            /\ UNCHANGED <<heldPid, downInScrollable>>
            /\ lastOp' = "pointerdown:ignored"
  /\ onSwipeCall' = NoCall
  /\ UNCHANGED <<appVars, domVars, loopVars, signals, submitVars>>

\* variant of releasePointer that leaves the pointer active
releasePointer_KeepsPointer(pid) == pid

\* releasePointer: the value of activePointerId it leaves, pid being the
\* value before the call
releasePointer(pid) == NoPointer

\* variant of IsForeignPointer that takes an event for the handler's own
\* when no pointer is active
IsForeignPointer_UnlessIdle(pid) ==
  activePointerId # NoPointer /\ pid # activePointerId

\* variant of IsForeignPointer that turns away an event only when no pointer
\* is active
IsForeignPointer_OnlyIdle(pid) == activePointerId = NoPointer

\* e.pointerId !== this.activePointerId, the first test of handlePointerMove,
\* handlePointerUp and handlePointerCancel
IsForeignPointer(pid) == pid # activePointerId

\* variant of DetectIntent in which equal deltas count as horizontal
DetectIntent_TieSwipes(absDeltaX, absDeltaY, inScrollable) ==
  IF absDeltaY > absDeltaX /\ inScrollable THEN "scroll"
  ELSE IF absDeltaX >= absDeltaY /\ absDeltaX > intentThreshold THEN "swipe"
  ELSE "tap"

\* the intent handlePointerMove assigns once a delta has reached
\* intentThreshold
DetectIntent(absDeltaX, absDeltaY, inScrollable) ==
  IF absDeltaY > absDeltaX /\ inScrollable THEN "scroll"
  ELSE IF absDeltaX > absDeltaY /\ absDeltaX > intentThreshold THEN "swipe"
  ELSE "tap"

\* variant of IntentUndetermined that lets a move reclassify a tap
IntentUndetermined_OrTap(intent) == intent \in {"none", "tap"}

\* if (this.gestureIntent === null): the intent has not been assigned yet
IntentUndetermined(intent) == intent = "none"

\* handlePointerMove.  inScrollable: the move event's target is inside a
\* .card-content whose content overflows (scrollHeight > clientHeight).
PointerMove(points) ==
  /\ installed
  /\ \E pid \in PointerIds :
       /\ lastPid' = pid
       /\ intentAtEntry' = gestureIntent
       /\ upPoint' = NoPoint
       /\ UNCHANGED <<heldPid, downInScrollable>>
       /\ IF IsForeignPointer(pid) \/ currentCard = NoCard
          THEN /\ KeepGesture
               /\ cardStack' = cardStack
               /\ lastOp' = "pointermove:ignored"
          ELSE \E p \in points, inScrollable \in BOOLEAN :
               LET x == p[1]
                   y == p[2]
                   deltaX == x - pointerStartX
                   deltaY == y - pointerStartY
                   absDeltaX == Abs(deltaX)
                   absDeltaY == Abs(deltaY)
                   drag == updateSwipeIndicators(
                             DragStyle(cardStack, currentCard, deltaX, deltaY),
                             currentCard, deltaX, absDeltaX)
               IN /\ pointerCurrentX' = x
                  /\ pointerCurrentY' = y
                  /\ UNCHANGED <<currentCard, pointerStartX, pointerStartY, elapsed>>
                  /\ IF IntentUndetermined(gestureIntent)
                     THEN IF absDeltaX < intentThreshold /\ absDeltaY < intentThreshold
                          THEN /\ UNCHANGED <<activePointerId, gestureIntent,
                                              isDragging, cardStack>>
                               /\ lastOp' = "pointermove:undetermined"
                          ELSE IF DetectIntent(absDeltaX, absDeltaY, inScrollable) = "scroll"
                          THEN /\ gestureIntent' = "scroll"
                               /\ activePointerId' = releasePointer(activePointerId)
                               /\ UNCHANGED <<isDragging, cardStack>>
                               /\ lastOp' = "pointermove:scroll"
                          ELSE IF DetectIntent(absDeltaX, absDeltaY, inScrollable) = "swipe"
                          THEN /\ gestureIntent' = "swipe"
                               /\ isDragging' = TRUE
                               /\ cardStack' = AddDragging(drag, currentCard)
                               /\ UNCHANGED activePointerId
                               /\ lastOp' = "pointermove:swipe"
                          ELSE /\ gestureIntent' = "tap"
                               /\ UNCHANGED <<activePointerId, isDragging,
                                              cardStack>>
                               /\ lastOp' = "pointermove:tap"
                     ELSE /\ UNCHANGED <<activePointerId, gestureIntent,
                                         isDragging>>
                          /\ IF gestureIntent = "swipe" /\ isDragging
                             THEN /\ cardStack' = drag
                                  /\ lastOp' = "pointermove:drag"
                             ELSE /\ cardStack' = cardStack
                                  /\ lastOp' = "pointermove:idle"
  /\ onSwipeCall' = NoCall
  /\ UNCHANGED <<appVars, epoch, loopVars, signals, submitVars>>

\* the commit decision of handlePointerUp
distanceMet(absDeltaX) == absDeltaX > swipeThreshold

\* variant of velocityMet without the duration > 0 guard
velocityMet_NoZeroGuard(absDeltaX, duration) ==
  10 * absDeltaX > velocityThresholdX10 * duration

\* velocity = duration > 0 ? absDeltaX / duration : 0;  velocity > 0.5
velocityMet(absDeltaX, duration) ==
  duration > 0 /\ 10 * absDeltaX > velocityThresholdX10 * duration

\* variant of IsTapMovement that takes every movement for a tap
IsTapMovement_Always(deltaX, deltaY) ==
  deltaX * deltaX + deltaY * deltaY >= 0

\* totalMovement = sqrt(dx^2 + dy^2) < tapThreshold
IsTapMovement(deltaX, deltaY) ==
  deltaX * deltaX + deltaY * deltaY < tapThreshold * tapThreshold

SwipeDirection(deltaX) == IF deltaX > 0 THEN "right" ELSE "left"

\* handlePointerUp.  It reads the event's pointerId only: the deltas come
\* from pointerCurrentX/Y, the position of the last processed pointermove.
PointerUp(maxTimers) ==
  /\ installed
  /\ \E pid \in PointerIds :
       /\ lastPid' = pid
       /\ intentAtEntry' = gestureIntent
       /\ \E p \in UpPoints : upPoint' = p
       /\ heldPid' = (IF pid = heldPid THEN NoPointer ELSE heldPid)
       /\ downInScrollable' = (IF pid = heldPid THEN FALSE ELSE downInScrollable)
       /\ IF IsForeignPointer(pid) \/ currentCard = NoCard
          THEN /\ KeepGesture
               /\ UNCHANGED <<cardStack, userVotes, currentBookIndex, timers>>
               /\ onSwipeCall' = NoCall
               /\ lastOp' = "pointerup:ignored"
          ELSE LET deltaX == pointerCurrentX - pointerStartX
                   deltaY == pointerCurrentY - pointerStartY
                   absDeltaX == Abs(deltaX)
                   duration == elapsed
                   cleanup(stack) ==
                     RemoveDragging(hideSwipeIndicators(stack, currentCard), currentCard)
               IN /\ IF gestureIntent = "swipe" /\ isDragging
                     THEN IF distanceMet(absDeltaX) \/ velocityMet(absDeltaX, duration)
                          THEN /\ CanCommit(maxTimers)
                               /\ completeSwipe(currentCard, SwipeDirection(deltaX),
                                                cleanup(cardStack))
                               /\ lastOp' = "pointerup:commit"
                          ELSE /\ cardStack' = cleanup(resetCard(cardStack, currentCard))
                               /\ UNCHANGED <<userVotes, currentBookIndex, timers>>
                               /\ onSwipeCall' = NoCall
                               /\ lastOp' = "pointerup:cancel"
                     ELSE IF IsTapMovement(deltaX, deltaY)
                     THEN /\ cardStack' = cleanup(IF isDragging THEN cardStack
                                                  ELSE ToggleFlipped(cardStack, currentCard))
                          /\ UNCHANGED <<userVotes, currentBookIndex, timers>>
                          /\ onSwipeCall' = NoCall
                          /\ lastOp' = "pointerup:tap"
                     ELSE /\ cardStack' = cleanup(cardStack)
                          /\ UNCHANGED <<userVotes, currentBookIndex, timers>>
                          /\ onSwipeCall' = NoCall
                          /\ lastOp' = "pointerup:none"
                  /\ ClearGesture
  /\ UNCHANGED <<books, highestLoadedBookIndex, installed, screen, errorShown,
                 epoch, pendingAuth, signals, submitVars>>

\* handlePointerCancel
PointerCancel ==
  /\ installed
  /\ \E pid \in PointerIds :
       /\ lastPid' = pid
       /\ intentAtEntry' = gestureIntent
       /\ upPoint' = NoPoint
       /\ heldPid' = (IF pid = heldPid THEN NoPointer ELSE heldPid)
       /\ downInScrollable' = (IF pid = heldPid THEN FALSE ELSE downInScrollable)
       /\ IF IsForeignPointer(pid)
          THEN /\ KeepGesture
               /\ cardStack' = cardStack
               /\ lastOp' = "pointercancel:ignored"
          ELSE /\ cardStack' =
                    RemoveDragging(
                      hideSwipeIndicators(
                        IF currentCard # NoCard /\ isDragging
                        THEN resetCard(cardStack, currentCard) ELSE cardStack,
                        currentCard),
                      currentCard)
               /\ ClearGesture
               /\ lastOp' = "pointercancel:active"
  /\ onSwipeCall' = NoCall
  /\ UNCHANGED <<appVars, epoch, loopVars, signals, submitVars>>

\* triggerSwipe(direction): used by the keyboard and the action buttons
triggerSwipe(direction, op, maxTimers) ==
  LET topCard == getTopCard(cardStack)
  IN IF topCard = NoCard
     THEN /\ UNCHANGED <<currentCard, cardStack, userVotes, currentBookIndex, timers>>
          /\ onSwipeCall' = NoCall
          /\ lastOp' = op \o ":ignored"
     ELSE /\ CanCommit(maxTimers)
          /\ currentCard' = topCard
          /\ completeSwipe(topCard, direction, cardStack)
          /\ lastOp' = op \o ":commit"

\* variant of KeyDirection in which the space bar rejects
KeyDirection_SpaceRejects(key) ==
  CASE key \in {"ArrowLeft", "Escape", " "} -> "left"
    [] key \in {"ArrowRight"} -> "right"
    [] OTHER -> "none"

KeyDirection(key) ==
  CASE key \in {"ArrowLeft", "Escape"} -> "left"
    [] key \in {"ArrowRight", " "} -> "right"
    [] OTHER -> "none"

Keys == {"ArrowLeft", "ArrowRight", " ", "Escape", "Enter"}

\* the document keydown listener of setupKeyboardControls, for one key
KeyPress(key, maxTimers) ==
  /\ IF getTopCard(cardStack) = NoCard \/ KeyDirection(key) = "none"
     THEN /\ UNCHANGED <<currentCard, cardStack, userVotes, currentBookIndex, timers>>
          /\ onSwipeCall' = NoCall
          /\ lastOp' = "keydown:ignored"
     ELSE triggerSwipe(KeyDirection(key), "keydown", maxTimers)
  /\ lastPid' = NoPointer
  /\ intentAtEntry' = gestureIntent
  /\ upPoint' = NoPoint
  /\ UNCHANGED <<heldPid, downInScrollable>>
  /\ UNCHANGED <<books, highestLoadedBookIndex, installed, screen, errorShown,
                 epoch, activePointerId, pointerStartX, pointerStartY,
                 pointerCurrentX, pointerCurrentY, elapsed, gestureIntent,
                 isDragging, pendingAuth, signals, submitVars>>

KeyDown(maxTimers) ==
  /\ installed
  /\ \E key \in Keys : KeyPress(key, maxTimers)

Buttons == {"reject-btn", "accept-btn"}

ButtonDirection(button) == IF button = "reject-btn" THEN "left" ELSE "right"

\* the click listener of the reject-btn or of the accept-btn
ButtonPress(button, maxTimers) ==
  /\ screen = "voting-screen"
  /\ triggerSwipe(ButtonDirection(button), "button", maxTimers)
  /\ lastPid' = NoPointer
  /\ intentAtEntry' = gestureIntent
  /\ upPoint' = NoPoint
  /\ UNCHANGED <<heldPid, downInScrollable>>
  /\ UNCHANGED <<books, highestLoadedBookIndex, installed, screen, errorShown,
                 epoch, activePointerId, pointerStartX, pointerStartY,
                 pointerCurrentX, pointerCurrentY, elapsed, gestureIntent,
                 isDragging, pendingAuth, signals, submitVars>>

ButtonClick(maxTimers) ==
  /\ installed
  /\ \E button \in Buttons : ButtonPress(button, maxTimers)

\* ---------------------------------------------------------------- time
Tick ==
  /\ \A i \in DOMAIN timers : timers[i].rem > 0
  /\ \/ timers # <<>>
     \/ activePointerId # NoPointer /\ elapsed < MaxElapsed
  /\ timers' = [i \in DOMAIN timers |->
                  [timers[i] EXCEPT !.rem = Max(0, @ - MsPerTick)]]
  /\ elapsed' = IF activePointerId # NoPointer
                THEN Min(elapsed + MsPerTick, MaxElapsed) ELSE elapsed
  /\ lastOp' = "tick"
  /\ lastPid' = NoPointer
  /\ intentAtEntry' = gestureIntent
  /\ upPoint' = NoPoint
  /\ UNCHANGED <<heldPid, downInScrollable>>
  /\ onSwipeCall' = NoCall
  /\ UNCHANGED <<appVars, domVars, activePointerId, currentCard, pointerStartX,
                 pointerStartY, pointerCurrentX, pointerCurrentY, gestureIntent,
                 isDragging, pendingAuth, signals, submitVars>>

Next ==
  \/ InitDone(MaxBooks)
  \/ FireWelcome
  \/ StartClick(MaxEpoch)
  \/ RestartClick(MaxEpoch + 1)
  \/ ResolveAuth
  \/ FireShowResults
  \/ FireAllReviewed
  \/ FireLoadMore
  \/ FireRemove
  \/ PointerDown(Downs)
  \/ PointerMove(Points)
  \/ PointerUp(MaxTimers)
  \/ PointerCancel
  \/ KeyDown(MaxTimers)
  \/ ButtonClick(MaxTimers)
  \/ Tick

Spec == Init /\ [][Next]_vars

SessionNext ==
  \/ InitDone(SessionMaxBooks)
  \/ FireWelcome
  \/ StartClick(SessionMaxEpoch)
  \/ RestartClick(SessionMaxEpoch)
  \/ ResolveAuth
  \/ FireShowResults
  \/ FireAllReviewed
  \/ FireLoadMore
  \/ FireRemove
  \/ KeyDown(SessionMaxTimers)
  \/ ButtonClick(SessionMaxTimers)
  \/ Tick

SessionSpec == Init /\ [][SessionNext]_vars

WindowNext ==
  \/ InitDone(WindowMaxBooks)
  \/ FireWelcome
  \/ StartClick(WindowMaxEpoch)
  \/ ResolveAuth
  \/ FireShowResults
  \/ FireAllReviewed
  \/ FireLoadMore
  \/ FireRemove
  \/ KeyDown(WindowMaxTimers)
  \/ SubmitClick
  \/ SubmitValidate
  \/ SubmitDone
  \/ DoneClick
  \/ Tick

WindowSpec == Init /\ [][WindowNext]_vars

\* Sessions in which a finger drags the top card while keys commit cards,
\* followed through the submission and the done button into a second
\* session: done-btn only shows the welcome screen, so whatever the swipe
\* handler holds is still there when start-btn is clicked again.
\* The user of these sessions has a list of HeldMaxBooks books, touches
\* the screen with one finger, releases it where the last move left it,
\* presses no key but ArrowRight and clicks submit-votes-btn once per
\* results screen.
HeldInitDone == InitDone(HeldMaxBooks) /\ (installed' => Len(books') = HeldMaxBooks)

HeldPointerMove == PointerMove(HeldPoints) /\ lastPid' = 1

HeldPointerUp == PointerUp(HeldMaxTimers) /\ lastPid' = 1 /\ upPoint' = <<100, 0>>

HeldKeyDown == KeyPress("ArrowRight", HeldMaxTimers) /\ installed

HeldSubmitClick == SubmitClick /\ submitAuth = 0 /\ submitApi = 0

HeldNext ==
  \/ HeldInitDone
  \/ FireWelcome
  \/ StartClick(HeldMaxEpoch)
  \/ ResolveAuth
  \/ FireShowResults
  \/ FireAllReviewed
  \/ FireLoadMore
  \/ FireRemove
  \/ PointerDown(HeldDowns)
  \/ HeldPointerMove
  \/ HeldPointerUp
  \/ HeldKeyDown
  \/ HeldSubmitClick
  \/ SubmitValidate
  \/ SubmitDone
  \/ DoneClick
  \/ Tick

HeldSpec == Init /\ [][HeldNext]_vars

\* Keyboard sessions with the submission of the votes, under the scheduling
\* the browser guarantees: time passes, a due timer fires, a pending promise
\* settles.  CommitTop is what a user does who keeps committing the top
\* card; nothing obliges the user to click a button.
LiveNext ==
  \/ InitDone(LiveMaxBooks)
  \/ FireWelcome
  \/ StartClick(LiveMaxEpoch)
  \/ ResolveAuth
  \/ FireShowResults
  \/ FireAllReviewed
  \/ FireLoadMore
  \/ FireRemove
  \/ KeyDown(LiveMaxTimers)
  \/ SubmitClick
  \/ SubmitValidate
  \/ SubmitDone
  \/ DoneClick
  \/ Tick

CommitTop == KeyDown(LiveMaxTimers) /\ onSwipeCall'.fired

LiveSpec ==
  /\ Init /\ [][LiveNext]_vars
  /\ WF_vars(Tick) /\ WF_vars(FireWelcome) /\ WF_vars(FireLoadMore)
  /\ WF_vars(FireRemove) /\ WF_vars(FireAllReviewed)
  /\ WF_vars(FireShowResults) /\ WF_vars(ResolveAuth)
  /\ WF_vars(SubmitValidate) /\ WF_vars(SubmitDone)
  /\ WF_vars(CommitTop)

\* A voting session driven by pointer events in which no pointerup and no
\* pointercancel reaches the #card-stack listeners (setPointerCapture failed
\* and the pointer was lifted outside the element).  Time passes and due
\* timers fire; nothing obliges the user to move the pointer.
LostNext ==
  \/ InitDone(MaxBooks)
  \/ FireWelcome
  \/ StartClick(MaxEpoch)
  \/ PointerDown(Downs)
  \/ PointerMove(Points)
  \/ Tick

LostSpec ==
  Init /\ [][LostNext]_vars /\ WF_vars(Tick) /\ WF_vars(FireWelcome)

TypeOK ==
  /\ Len(books) <= WindowMaxBooks
  /\ currentBookIndex >= 0
  /\ DOMAIN userVotes \subseteq {books[i] : i \in DOMAIN books}
  /\ highestLoadedBookIndex \in -1..(Len(books) - 1)
  /\ Len(cardStack) <= initialCards
  /\ epoch \in 0..(SessionMaxEpoch + 1)
  /\ activePointerId \in PointerIds \cup {NoPointer}
  /\ gestureIntent \in {"none", "tap", "scroll", "swipe"}
  /\ elapsed \in 0..MaxElapsed
  /\ Len(timers) <= MaxTimers + MaxPending + 2
  /\ pendingAuth \in 0..MaxPending
  /\ submitDisabled \in BOOLEAN
  /\ submitAuth \in 0..MaxPending
  /\ submitApi \in 0..MaxPending
  /\ lastPid \in PointerIds \cup {NoPointer}
  /\ heldPid \in PointerIds \cup {NoPointer}
  /\ intentAtEntry \in {"none", "tap", "scroll", "swipe"}
  /\ upPoint \in UpPoints \cup {NoPoint}
  /\ downInScrollable \in BOOLEAN

\* ------------------------------------------------------------ properties

\* The outcomes of a pointerup event that handlePointerUp processed.
ReleaseOps == {"pointerup:commit", "pointerup:cancel", "pointerup:tap",
               "pointerup:none"}

\* the card the released gesture held is back at the centre, if still attached
ReturnedToCenter ==
  \A i \in DOMAIN cardStack' :
    cardStack'[i].el = currentCard =>
      /\ cardStack'[i].tk = "center" /\ cardStack'[i].tx = 0
      /\ cardStack'[i].ty = 0 /\ cardStack'[i].rot = 0
      /\ cardStack'[i].opacity = opacityScale
      /\ ~cardStack'[i].dragging

\* C1 as stated: when the pointer is released with the intent classified as
\* swipe, the swipe commits iff |deltaX| > 80 or |deltaX| / elapsed > 0.5
\* px/ms (2 * |deltaX| > elapsed; at elapsed = 0 any movement exceeds every
\* finite velocity); otherwise it is cancelled, the card returns to the
\* centre and no vote is recorded.
C1_CommitRuleAsStated ==
  [][(gestureIntent = "swipe" /\ lastOp' \in ReleaseOps) =>
       LET absDX == Abs(pointerCurrentX - pointerStartX)
           commits == absDX > 80 \/ 2 * absDX > elapsed
       IN /\ onSwipeCall'.fired <=> commits
          /\ ~commits => /\ lastOp' = "pointerup:cancel"
                         /\ ReturnedToCenter
                         /\ UNCHANGED <<userVotes, currentBookIndex>>]_vars

\* C1 amended: when the pointer is released with the intent classified as
\* swipe, the swipe commits iff |deltaX| > 80 or (elapsed > 0 and
\* |deltaX| / elapsed > 0.5 px/ms): a release in the same millisecond as the
\* pointerdown has velocity 0.  Otherwise it is cancelled, the card returns
\* to the centre and no vote is recorded.
C1_CommitRule ==
  [][(gestureIntent = "swipe" /\ lastOp' \in ReleaseOps) =>
       LET absDX == Abs(pointerCurrentX - pointerStartX)
           commits == absDX > 80 \/ (elapsed > 0 /\ 2 * absDX > elapsed)
       IN /\ onSwipeCall'.fired <=> commits
          /\ commits => lastOp' = "pointerup:commit"
          /\ ~commits => /\ lastOp' = "pointerup:cancel"
                         /\ ReturnedToCenter
                         /\ UNCHANGED <<userVotes, currentBookIndex>>]_vars

\* C1 witness: a swipe released below both thresholds was cancelled and its
\* card is back at the centre of a non-empty stack.
C1_Witness ==
  /\ lastOp = "pointerup:cancel"
  /\ Len(cardStack) > 0 /\ cardStack[1].tk = "center"

\* C2: every swipe committed by a pointer release has deltaX # 0, records
\* "interested" iff deltaX > 0 and "not_interested" iff deltaX < 0, and
\* reports that same vote for the released card's book to onSwipe.
C2_DirectionMapping ==
  [][lastOp' = "pointerup:commit" =>
       LET deltaX == pointerCurrentX - pointerStartX
           bookId == books[currentCard[2] + 1]
           vote == IF deltaX > 0 THEN "interested" ELSE "not_interested"
       IN /\ deltaX # 0
          /\ onSwipeCall'.fired
          /\ onSwipeCall'.bookId = bookId
          /\ onSwipeCall'.vote = vote
          /\ onSwipeCall'.direction = (IF deltaX > 0 THEN "right" ELSE "left")
          /\ bookId \in DOMAIN userVotes'
          /\ userVotes'[bookId] = vote]_vars

\* C2 witness: a leftward pointer release committed a "not_interested" vote.
C2_Witness ==
  /\ lastOp = "pointerup:commit"
  /\ onSwipeCall.fired /\ onSwipeCall.vote = "not_interested"

\* An interaction is active: a pointerdown was accepted and neither its
\* pointerup nor its pointercancel has been processed.  Both handlers (and
\* reset) end in resetState, which sets the intent back to null, so after a
\* scroll classification released the pointer the interaction is still
\* recognisable by its intent.
InteractionActive == activePointerId # NoPointer \/ gestureIntent = "scroll"

\* C3 as stated: while an interaction is active (a pointerdown was accepted
\* and neither its up nor its cancel has been processed) no further
\* pointerdown is accepted, and an ignored pointerdown changes neither
\* activePointerId, currentCard, the start position nor gestureIntent.
C3_SinglePointerAsStated ==
  [][/\ InteractionActive => lastOp' # "pointerdown:accepted"
     /\ lastOp' = "pointerdown:ignored" =>
          UNCHANGED <<activePointerId, currentCard, pointerStartX,
                      pointerStartY, gestureIntent>>]_vars

\* C3 amended: while activePointerId is non-null (a pointerdown was accepted
\* and since then no up, no cancel, no reset and no scroll classification
\* has released the pointer) no further pointerdown is accepted, and an
\* ignored pointerdown changes neither activePointerId, currentCard, the
\* start position nor gestureIntent.
C3_SinglePointer ==
  [][/\ activePointerId # NoPointer => lastOp' # "pointerdown:accepted"
     /\ lastOp' = "pointerdown:ignored" =>
          UNCHANGED <<activePointerId, currentCard, pointerStartX,
                      pointerStartY, gestureIntent>>]_vars

\* C3 witness: a pointerdown was ignored while a swipe of another pointer
\* was in progress.
C3_Witness ==
  /\ lastOp = "pointerdown:ignored"
  /\ activePointerId # NoPointer /\ gestureIntent = "swipe" /\ isDragging

BookIds == {books[i] : i \in DOMAIN books}

\* C4: whenever handleAllBooksReviewed has just been invoked (by the
\* 500 ms timer of handleSwipe or by the empty-stack callback), userVotes
\* has exactly one entry per book: every book id is a key and there are
\* books.length keys.
C4_VoteConservation ==
  lastOp \in {"timer:allReviewed", "timer:remove+onEmpty"} =>
    /\ DOMAIN userVotes = BookIds
    /\ Cardinality(DOMAIN userVotes) = Len(books)

\* C5: within one session (since the last startVoting or restart) the
\* completion signal handleAllBooksReviewed is raised at most once.
C5_SignalOnce == signals <= 1

\* C6: during a voting session the card stack holds at most 5 cards and its
\* i-th card is the book at index currentBookIndex + i - 1, the stack being
\* an in-order prefix of the books not yet voted on.
C6_WindowPrefix ==
  screen = "voting-screen" =>
    /\ Len(cardStack) <= 5
    /\ \A i \in DOMAIN cardStack :
         /\ currentBookIndex + i <= Len(books)
         /\ cardStack[i].bookId = books[currentBookIndex + i]

\* C7: a vote, once recorded for a book, is neither removed nor changed by
\* any step other than restart and startVoting.
C7_VoteKept ==
  [][lastOp' \notin {"restart", "startVoting"} =>
       \A b \in DOMAIN userVotes :
         b \in DOMAIN userVotes' /\ userVotes'[b] = userVotes[b]]_vars

\* C8: whenever onSwipe has just fired, the card stack is non-empty and the
\* reported bookId is the book that was at currentBookIndex when the call
\* was made (the call advanced currentBookIndex by one).
C8_HeadOfQueue ==
  onSwipeCall.fired =>
    /\ Len(cardStack) > 0
    /\ currentBookIndex \in 1..Len(books)
    /\ onSwipeCall.bookId = books[currentBookIndex]

TimerOps == {"timer:welcome", "timer:showResults", "timer:allReviewed",
             "timer:loadMore", "timer:remove", "timer:remove+onEmpty"}

\* C9: a timer callback scheduled before the last restart or startVoting
\* changes neither the active screen, the card stack,
\* highestLoadedBookIndex nor the votes when it fires.
C9_StaleTimersInert ==
  [][(timers # <<>> /\ timers' = Tail(timers) /\ lastOp' \in TimerOps
        /\ Head(timers).ep < epoch) =>
       UNCHANGED <<screen, cardStack, highestLoadedBookIndex, userVotes>>]_vars

\* C10: right after an active pointercancel or a reset(), activePointerId,
\* currentCard and gestureIntent are null, isDragging is false, no card
\* carries the dragging class, and a primary-button pointerdown on the top
\* card's flip container is accepted.
C10_Unwound ==
  lastOp \in {"pointercancel:active", "restart"} =>
    /\ activePointerId = NoPointer
    /\ currentCard = NoCard
    /\ gestureIntent = "none"
    /\ ~isDragging
    /\ \A i \in DOMAIN cardStack : ~cardStack[i].dragging
    /\ Len(cardStack) > 0 => AcceptsDown(1, 0, TRUE)

\* C10 witness: a drag was cancelled; its card, back at the centre, is the
\* top card of the voting screen.
C10_Witness ==
  /\ lastOp = "pointercancel:active"
  /\ screen = "voting-screen"
  /\ Len(cardStack) > 0 /\ cardStack[1].tk = "center"

\* C11: when the pointerup and the pointercancel of an accepted pointerdown
\* are never delivered, the engine eventually treats the interaction as
\* cancelled by itself: activePointerId returns to null, so that a later
\* pointerdown of another pointer is accepted.
C11_ImplicitCancel ==
  [](activePointerId # NoPointer => <>(activePointerId = NoPointer))
\* C12: after the pointerup of the pointer whose pointerdown started the
\* interaction, whatever the outcome (commit, cancel, tap, nothing, or a
\* scroll the handler let go of earlier), the handler holds no gesture
\* state: activePointerId, currentCard and gestureIntent are null and
\* isDragging is false.
C12_NoStateAfterUp ==
  [][(heldPid # NoPointer /\ lastPid' = heldPid
        /\ lastOp' \in ReleaseOps \cup {"pointerup:ignored"}) =>
       /\ activePointerId' = NoPointer
       /\ currentCard' = NoCard
       /\ gestureIntent' = "none"
       /\ ~isDragging']_vars
\* A pointermove of the active pointer is its first over-threshold movement
\* and has equal horizontal and vertical deltas.
FirstMoveIsTie ==
  /\ gestureIntent = "none"
  /\ lastOp' \in {"pointermove:scroll", "pointermove:swipe", "pointermove:tap"}
  /\ Abs(pointerCurrentX' - pointerStartX) = Abs(pointerCurrentY' - pointerStartY)

UndeterminedRelease == gestureIntent = "none" /\ lastOp' \in ReleaseOps

\* the flipped class of the card held by the gesture toggles
FlipToggles ==
  \A i \in DOMAIN cardStack :
    cardStack'[i].flipped =
      (IF cardStack[i].el = currentCard
       THEN ~cardStack[i].flipped ELSE cardStack[i].flipped)

NoVoteRecorded ==
  /\ UNCHANGED <<userVotes, currentBookIndex, timers>>
  /\ ~onSwipeCall'.fired

\* C14 as stated: whenever the active pointer is released while the intent
\* is still undetermined, the release is a tap: the card's flipped state
\* toggles and no vote is recorded.
C14_UndeterminedIsTapAsStated ==
  [][UndeterminedRelease =>
       /\ lastOp' = "pointerup:tap"
       /\ DOMAIN cardStack' = DOMAIN cardStack
       /\ FlipToggles
       /\ NoVoteRecorded]_vars

\* C14 amended: whenever the active pointer is released while the intent is
\* still undetermined, no vote is recorded; the release is a tap (the
\* card's flipped state toggles) iff the pointer is less than 10 px from
\* where it went down, and otherwise no card's flipped state changes.
C14_UndeterminedRelease ==
  [][UndeterminedRelease =>
       LET deltaX == pointerCurrentX - pointerStartX
           deltaY == pointerCurrentY - pointerStartY
           near == deltaX * deltaX + deltaY * deltaY < 100
       IN /\ NoVoteRecorded
          /\ DOMAIN cardStack' = DOMAIN cardStack
          /\ near => lastOp' = "pointerup:tap" /\ FlipToggles
          /\ ~near =>
               /\ lastOp' = "pointerup:none"
               /\ \A i \in DOMAIN cardStack :
                    cardStack'[i].flipped = cardStack[i].flipped]_vars

\* C14 witness: a pointer that had moved at least 10 px, and less than the
\* 15 px that decide the intent, was released: nothing happened to the
\* card on top of the stack.
C14_Witness ==
  /\ lastOp = "pointerup:none"
  /\ intentAtEntry = "none"
  /\ Len(cardStack) > 0 /\ ~cardStack[1].flipped
\* the handlers of the events that continue or end an interaction
MoveOps == {"pointermove:ignored", "pointermove:undetermined",
            "pointermove:scroll", "pointermove:swipe", "pointermove:tap",
            "pointermove:drag", "pointermove:idle"}
UpOps == ReleaseOps \cup {"pointerup:ignored"}
CancelOps == {"pointercancel:ignored", "pointercancel:active"}

\* C15: handlePointerCancel called while no pointer is active changes
\* nothing: userVotes, currentBookIndex, the card stack, the gesture state
\* and the pending timers are unchanged and onSwipe does not fire; being a
\* step property, it holds for every call of a row of repeated calls.
C15_IdleCancelInert ==
  [][(activePointerId = NoPointer /\ lastOp' \in CancelOps) =>
       /\ lastOp' = "pointercancel:ignored"
       /\ UNCHANGED <<userVotes, currentBookIndex, cardStack, gestureVars,
                      timers>>
       /\ ~onSwipeCall'.fired]_vars

\* C15 witness: a pointercancel arrived during a voting session while no
\* pointer was active, with cards on the stack and a vote recorded.
C15_Witness ==
  /\ lastOp = "pointercancel:ignored"
  /\ activePointerId = NoPointer
  /\ screen = "voting-screen"
  /\ Len(cardStack) > 0
  /\ userVotes # <<>>

\* C16: a pointermove, pointerup or pointercancel whose pointerId is not
\* the active pointer's (no pointer being active included) is ignored: the
\* gesture state, the cards, the votes, currentBookIndex and the pending
\* timers are unchanged and onSwipe does not fire.
C16_ForeignPointerIgnored ==
  [][(lastOp' \in MoveOps \cup UpOps \cup CancelOps
        /\ lastPid' # activePointerId) =>
       /\ lastOp' \in {"pointermove:ignored", "pointerup:ignored",
                        "pointercancel:ignored"}
       /\ UNCHANGED <<userVotes, currentBookIndex, cardStack, gestureVars,
                      timers>>
       /\ ~onSwipeCall'.fired]_vars

\* C16 witness: while pointer 1 was dragging the top card, a pointerup of
\* pointer 2 arrived and the drag went on.
C16_Witness ==
  /\ lastOp = "pointerup:ignored"
  /\ lastPid = 2
  /\ activePointerId = 1
  /\ gestureIntent = "swipe" /\ isDragging
  /\ Len(cardStack) > 0 /\ cardStack[1].dragging
\* C17: when init() has ended with an empty book list, an error has been
\* reported and the session never starts: no swipe handler and no button
\* listener is installed, the loading screen stays, no timer is pending, no
\* card exists, no vote is recorded and completion is never signalled.
C17_EmptyListNeverStarts ==
  (lastOp # "constructor" /\ books = <<>>) =>
    /\ errorShown
    /\ ~installed
    /\ screen = "loading-screen"
    /\ timers = <<>> /\ pendingAuth = 0
    /\ cardStack = <<>>
    /\ userVotes = <<>> /\ currentBookIndex = 0
    /\ ~onSwipeCall.fired
    /\ signals = 0

\* C17 witness: init() has ended with an empty book list and an error.
C17_Witness ==
  /\ lastOp = "init"
  /\ books = <<>>
  /\ errorShown /\ ~installed
\* C18: right after every startVoting(), the first one and the one that
\* follows the closing of the success screen alike, currentBookIndex is 0,
\* userVotes is empty, the card stack holds the first min(5, n) books in
\* order and highestLoadedBookIndex is min(5, n) - 1.
C18_StartResetsAll ==
  lastOp = "startVoting" =>
    /\ currentBookIndex = 0
    /\ userVotes = <<>>
    /\ Len(cardStack) = Min(initialCards, Len(books))
    /\ \A i \in DOMAIN cardStack : cardStack[i].bookId = books[i]
    /\ highestLoadedBookIndex = Min(initialCards, Len(books)) - 1
\* C19: once handleAllBooksReviewed has been called in a session, no step
\* other than restart() and startVoting() records a vote or changes
\* currentBookIndex.
C19_CompleteIsTerminal ==
  [][(signals >= 1 /\ lastOp' \notin {"restart", "startVoting"}) =>
       /\ UNCHANGED <<userVotes, currentBookIndex>>
       /\ ~onSwipeCall'.fired]_vars
\* C20: during a voting session, once every timer scheduled by the commits
\* so far has fired, the card stack holds at least min(3, number of books
\* without a vote) cards.
C20_WindowRefilled ==
  (screen = "voting-screen" /\ userVotes # <<>> /\ timers = <<>>) =>
    Len(cardStack) >= Min(lowWaterMark, Len(books) - VoteCount(userVotes))
\* C21: in every state, loadMoreCards called twice in a row leaves the card
\* stack and highestLoadedBookIndex that one call leaves, and a call adds no
\* card when the stack holds 3 or more cards or every book has a card.
C21_LoadMoreIdempotent ==
  LET once == loadMoreCardsFrom(cardStack, highestLoadedBookIndex, epoch)
      twice == loadMoreCardsFrom(once.stack, once.highest, epoch)
  IN /\ twice = once
     /\ (Len(cardStack) >= 3 \/ highestLoadedBookIndex + 1 >= Len(books)) =>
          /\ once.stack = cardStack
          /\ once.highest = highestLoadedBookIndex

\* C21 witness: a voting session is in a state where loadMoreCards adds a
\* card: two cards are left on the stack and a book has no card yet.
C21_Witness ==
  /\ screen = "voting-screen"
  /\ Len(cardStack) = 2
  /\ highestLoadedBookIndex + 1 < Len(books)
  /\ Len(loadMoreCardsFrom(cardStack, highestLoadedBookIndex, epoch).stack) = 3
\* C22: when the exit timer of a committed top card fires, the card leaves
\* the card stack and, unless it was the card of the last book, the book
\* that follows it in this.books is the new top card.
C22_NextBecomesTop ==
  [][(lastOp' \in {"timer:remove", "timer:remove+onEmpty"}
        /\ timers # <<>> /\ isTopCard(cardStack, Head(timers).el)) =>
       LET el == Head(timers).el
       IN /\ ~InStack(cardStack', el)
          /\ el[2] + 1 < Len(books) =>
               /\ Len(cardStack') > 0
               /\ cardStack'[1].bookId = books[el[2] + 2]]_vars
\* the card stack keeps its members and their order
SameCards ==
  /\ DOMAIN cardStack' = DOMAIN cardStack
  /\ \A i \in DOMAIN cardStack :
       /\ cardStack'[i].el = cardStack[i].el
       /\ cardStack'[i].bookId = cardStack[i].bookId

\* C23: a tap (a pointerup of the active pointer less than 10 px from the
\* pointerdown, no swipe entered) records no vote, leaves currentBookIndex,
\* highestLoadedBookIndex and the members and order of the card stack
\* unchanged, and changes nothing of any card but the flipped state of the
\* tapped card, which toggles.
C23_TapOnlyFlips ==
  [][lastOp' = "pointerup:tap" =>
       /\ NoVoteRecorded
       /\ UNCHANGED highestLoadedBookIndex
       /\ SameCards
       /\ FlipToggles
       /\ \A i \in DOMAIN cardStack :
            [cardStack'[i] EXCEPT !.flipped = cardStack[i].flipped]
              = cardStack[i]]_vars

\* C23 witness: the top card was tapped and shows its back; no vote exists.
C23_Witness ==
  /\ lastOp = "pointerup:tap"
  /\ Len(cardStack) > 0 /\ cardStack[1].flipped
  /\ userVotes = <<>> /\ currentBookIndex = 0

\* a swipe is released below both thresholds, or a pointercancel ends a drag
CancelledGesture ==
  \/ lastOp' = "pointerup:cancel"
  \/ lastOp' = "pointercancel:active" /\ isDragging

\* C24: a cancelled gesture changes neither userVotes, currentBookIndex,
\* highestLoadedBookIndex nor the members and order of the card stack and
\* makes no onSwipe call; the card it held is back at the centre with full
\* opacity, and no other card changes.
C24_CancelMutatesNothing ==
  [][CancelledGesture =>
       /\ NoVoteRecorded
       /\ UNCHANGED highestLoadedBookIndex
       /\ SameCards
       /\ ReturnedToCenter
       /\ \A i \in DOMAIN cardStack :
            cardStack[i].el # currentCard => cardStack'[i] = cardStack[i]]_vars

\* C24 witness: a pointercancel ended a drag of the top card, which is back
\* at the centre with full opacity.
C24_Witness ==
  /\ lastOp = "pointercancel:active"
  /\ intentAtEntry = "swipe"
  /\ Len(cardStack) > 0
  /\ cardStack[1].tk = "center" /\ cardStack[1].opacity = opacityScale
\* C25: the pointermove that classifies a gesture as scroll releases the
\* pointer at once and changes no card and no vote; and while the intent
\* is scroll no pointermove and no pointerup changes a card (transform,
\* opacity, indicators, flipped), the gesture state or a vote.
C25_ScrollInert ==
  [][/\ lastOp' = "pointermove:scroll" =>
          /\ gestureIntent' = "scroll"
          /\ activePointerId' = NoPointer
          /\ cardStack' = cardStack
          /\ NoVoteRecorded
     /\ (gestureIntent = "scroll" /\ lastOp' \in MoveOps \cup UpOps) =>
          /\ lastOp' \in {"pointermove:ignored", "pointerup:ignored"}
          /\ cardStack' = cardStack
          /\ UNCHANGED gestureVars
          /\ NoVoteRecorded]_vars

\* C25 witness: the pointerup of a pointer whose gesture had become a
\* scroll arrived; the top card is where the stack put it.
C25_Witness ==
  /\ lastOp = "pointerup:ignored"
  /\ intentAtEntry = "scroll" /\ gestureIntent = "scroll"
  /\ activePointerId = NoPointer
  /\ Len(cardStack) > 0 /\ cardStack[1].tk = "stack" /\ ~cardStack[1].flipped
\* C26: a submission of the votes that failed is retried without a further
\* click: after a failed submitVotes the votes are eventually submitted
\* with success (the success screen is shown).
C26_FailedSubmissionRetried ==
  [](lastOp = "submit:failed" => <>(lastOp = "submit:success"))
\* C27: in a session whose user keeps committing the top card and whose
\* timers fire and promises settle, from the voting screen completion is
\* eventually signalled (handleAllBooksReviewed is called) and the results
\* screen eventually becomes the active screen.
C27_SessionCompletes ==
  /\ (screen = "voting-screen") ~> (signals >= 1)
  /\ (screen = "voting-screen") ~> (screen = "results-screen")

\* C27 witness: the results screen is shown after completion was signalled
\* with a vote for each of three books.
C27_Witness ==
  /\ screen = "results-screen"
  /\ signals >= 1
  /\ Len(books) = 3 /\ VoteCount(userVotes) = 3
\* C28: at no time are two bookSwipeAPI.submitVotes requests in flight.
C28_OneSubmissionInFlight == submitApi <= 1
\* A pointermove of the active pointer is its first over-threshold movement
\* and its vertical delta exceeds its horizontal delta.
FirstMoveIsVertical ==
  /\ gestureIntent = "none"
  /\ lastOp' \in {"pointermove:scroll", "pointermove:swipe", "pointermove:tap"}
  /\ Abs(pointerCurrentY' - pointerStartY) > Abs(pointerCurrentX' - pointerStartX)

\* C29: a vertical-dominant first movement is classified as scroll exactly
\* when the pointerdown of the interaction was over overflowing scrollable
\* content, whatever the target of the pointermove.
C29_ScrollByDownPosition ==
  [][(FirstMoveIsVertical /\ activePointerId = heldPid) =>
       (gestureIntent' = "scroll" <=> downInScrollable)]_vars

\* C30: when the pointerup of the active pointer is processed, the commit,
\* cancel and tap decisions follow the deltas between the pointerup
\* event's coordinates and the start coordinates: a swipe commits iff
\* |deltaX| > 80 or its velocity exceeds 0.5 px/ms, in the direction of
\* deltaX, and a gesture that is no swipe is a tap iff its total movement
\* is below 10 px.
C30_DeltasFromUpEvent ==
  [][lastOp' \in ReleaseOps =>
       LET deltaX == upPoint'[1] - pointerStartX
           deltaY == upPoint'[2] - pointerStartY
           absDX == Abs(deltaX)
       IN IF gestureIntent = "swipe" /\ isDragging
          THEN /\ lastOp' = "pointerup:commit" <=>
                    (absDX > 80 \/ (elapsed > 0 /\ 2 * absDX > elapsed))
               /\ lastOp' = "pointerup:commit" =>
                    onSwipeCall'.direction =
                      (IF deltaX > 0 THEN "right" ELSE "left")
          ELSE lastOp' = "pointerup:tap" <=>
                 deltaX * deltaX + deltaY * deltaY < 100]_vars
\* C31: after every pointermove processed while the intent is "swipe" (the
\* classifying move included) the held card shows LIKE iff deltaX > 30 and
\* PASS iff deltaX < -30; after every step no card shows both; and after a
\* processed pointerup or pointercancel no card of the stack shows either.
C31_Indicators ==
  [][\A i \in DOMAIN cardStack' :
       LET c == cardStack'[i]
           deltaX == pointerCurrentX' - pointerStartX'
       IN /\ ~(c.like /\ c.pass)
          /\ (lastOp' \in {"pointermove:swipe", "pointermove:drag"}
                /\ c.el = currentCard') =>
               /\ c.like <=> deltaX > 30
               /\ c.pass <=> deltaX < -30
          /\ lastOp' \in ReleaseOps \cup {"pointercancel:active"} =>
               ~c.like /\ ~c.pass]_vars

\* C31 witness: the top card is dragged 100 px to the left and shows PASS.
C31_Witness ==
  /\ gestureIntent = "swipe" /\ isDragging
  /\ lastOp = "pointermove:drag"
  /\ pointerCurrentX - pointerStartX = -100
  /\ Len(cardStack) > 0 /\ cardStack[1].el = currentCard
  /\ cardStack[1].pass /\ ~cardStack[1].like
\* the top card's book received this vote through the onSwipe callback
TopCardRecorded(vote) ==
  LET bookId == BookIdOfEl(getTopCard(cardStack))
  IN /\ onSwipeCall'.fired
     /\ onSwipeCall'.bookId = bookId
     /\ onSwipeCall'.vote = vote
     /\ userVotes' = (bookId :> vote) @@ userVotes

\* nothing but the observation of the handler itself changes
NoStateChanged ==
  /\ UNCHANGED <<appVars, domVars, gestureVars, loopVars, submitVars, signals>>
  /\ ~onSwipeCall'.fired

\* C32: a press of ArrowRight or Space and a click on the accept button
\* record "interested" for the book of the top card; ArrowLeft, Escape and
\* the reject button record "not_interested" for it; with an empty card
\* stack a key press or a button click records nothing and changes no state.
C32_KeysAndButtons ==
  [][/\ \A key \in Keys :
          (lastOp' \in {"keydown:commit", "keydown:ignored"}
             /\ KeyPress(key, MaxTimers)) =>
            IF getTopCard(cardStack) = NoCard THEN NoStateChanged
            ELSE /\ key \in {"ArrowRight", " "} => TopCardRecorded("interested")
                 /\ key \in {"ArrowLeft", "Escape"} =>
                      TopCardRecorded("not_interested")
     /\ \A button \in Buttons :
          (lastOp' \in {"button:commit", "button:ignored"}
             /\ ButtonPress(button, MaxTimers)) =>
            IF getTopCard(cardStack) = NoCard THEN NoStateChanged
            ELSE /\ button = "accept-btn" => TopCardRecorded("interested")
                 /\ button = "reject-btn" => TopCardRecorded("not_interested")]_vars

\* C32 witness: a key press has just recorded "interested" for a book.
C32_Witness ==
  /\ lastOp = "keydown:commit"
  /\ onSwipeCall.fired /\ onSwipeCall.vote = "interested"
  /\ onSwipeCall.bookId \in DOMAIN userVotes
  /\ userVotes[onSwipeCall.bookId] = "interested"
\* C33: in every state the books that have a vote are a prefix of the book
\* list: book i+1 has a vote only if book i has one.
C33_VotesArePrefix ==
  \A i \in 1..(Len(books) - 1) :
    books[i + 1] \in DOMAIN userVotes => books[i] \in DOMAIN userVotes

\* C34: in every state currentBookIndex is the number of entries of
\* userVotes and is at most books.length.
C34_IndexCountsVotes ==
  /\ currentBookIndex = Cardinality(DOMAIN userVotes)
  /\ currentBookIndex <= Len(books)
\* C35: a pointermove that finds the intent assigned ("scroll", "swipe" or
\* "tap") leaves it, and isDragging, as they are; and while the intent is
\* "tap" no pointermove, pointerup or pointercancel sets isDragging or
\* records a vote, wherever the pointer has moved.
C35_IntentAssignedOnce ==
  [][/\ (gestureIntent # "none" /\ lastOp' \in MoveOps) =>
          UNCHANGED <<gestureIntent, isDragging>>
     /\ (gestureIntent = "tap" /\ lastOp' \in MoveOps \cup UpOps \cup CancelOps) =>
          /\ ~isDragging'
          /\ ~onSwipeCall'.fired
          /\ UNCHANGED <<userVotes, currentBookIndex>>]_vars

\* C35 witness: an interaction classified "tap" has then moved 100 px
\* horizontally, further than swipeThreshold, and is still a tap.
C35_Witness ==
  /\ lastOp = "pointermove:idle"
  /\ intentAtEntry = "tap" /\ gestureIntent = "tap"
  /\ activePointerId # NoPointer
  /\ pointerCurrentX - pointerStartX = 100
  /\ ~isDragging
\* the cards of the stack are elements of one session with consecutive
\* book indices, in book-list order
ContiguousCards(stack) ==
  \A i \in 1..(Len(stack) - 1) :
    /\ stack[i + 1].el[1] = stack[i].el[1]
    /\ stack[i + 1].el[2] = stack[i].el[2] + 1
    /\ stack[i].bookId = books[stack[i].el[2] + 1]

\* the card elements this step creates
CreatedCards ==
  {cardStack'[i].el : i \in DOMAIN cardStack'} \
    {cardStack[i].el : i \in DOMAIN cardStack}

\* C36: after every step the cards of the stack have consecutive book
\* indices in book-list order (hence distinct books); and no step after
\* startVoting creates a card for a book that had one in the session:
\* every card in the stack has an index of at most highestLoadedBookIndex,
\* which only restart() lowers, and every card created after startVoting
\* has a higher index than that.
C36_CardsContiguousOnce ==
  [][/\ ContiguousCards(cardStack')
     /\ \A i \in DOMAIN cardStack' :
          cardStack'[i].el[2] <= highestLoadedBookIndex'
     /\ lastOp' # "restart" => highestLoadedBookIndex' >= highestLoadedBookIndex
     /\ lastOp' # "startVoting" =>
          \A el \in CreatedCards : el[2] > highestLoadedBookIndex]_vars

\* C36 witness: with six books, loadMoreCards has just created the card of
\* the sixth book behind the cards of the fourth and the fifth.
C36_Witness ==
  /\ lastOp = "timer:loadMore"
  /\ Len(books) = 6 /\ Len(cardStack) = 3
  /\ cardStack[1].el[2] = 3 /\ cardStack[3].el[2] = 5
  /\ cardStack[3].bookId = books[6]
  /\ highestLoadedBookIndex = 5
\* C37: BookSwipeAPI.submitVotes settles every outcome other than a created
\* record with the value {success: false, error}, never with an exception;
\* the step that handles a failed submission leaves userVotes unchanged,
\* the submit button enabled and the results screen active; and only the
\* step that handles a successful submission activates the success screen.
C37_FailureLosesNothing ==
  [][/\ \A outcome \in ApiOutcomes \ {"mock", "ok"} :
          /\ ~apiSubmitVotes(outcome).threw
          /\ ~apiSubmitVotes(outcome).success
          /\ apiSubmitVotes(outcome).error # ""
     /\ lastOp' = "submit:failed" =>
          /\ UNCHANGED userVotes
          /\ ~submitDisabled'
          /\ screen' = "results-screen"
     /\ (screen' = "success-screen" /\ screen # "success-screen") =>
          lastOp' = "submit:success"]_vars

====
